---------------------------- MODULE Spec2Model ----------------------------
(***************************************************************************)
(* Model of src/src/pages/MinecraftGame.tsx: the React component           *)
(* MinecraftGame, whose single effect (deps [isPointerLocked]) builds the   *)
(* scene and the world, registers the input listeners, starts the animate  *)
(* loop and returns a cleanup.                                              *)
(*                                                                         *)
(* Number representation (JavaScript doubles are modelled in fixed point): *)
(*   angles            micro-radians   (yaw, pitch)                        *)
(*   gamepad axes      hundredths      (an axis of 1.0 is 100)             *)
(*   time              milliseconds                                        *)
(*   arm swing         exact decimals  (armSwing, armSwingSpeed): the       *)
(*                     record [n, e] is n / 10^e millionths                 *)
(* The camera position is kept exactly, as the coefficients of the unit    *)
(* vectors forward(yaw) and right(yaw) it has been moved along.            *)
(***************************************************************************)
EXTENDS Integers, Sequences, FiniteSets

VARIABLES
  lifecycle,          \* "initial" | "mounted" | "unmounted": the component
  isPointerLocked,    \* React state, line 21 (latest value set)
  selectedSlot,       \* React state, line 20
  fps,                \* React state, line 22
  fpsWindow,          \* the frameCount and fpsUpdateTime of the last setFps call, line 208
  innerSize,          \* window.innerWidth / innerHeight
  pointerLockElement, \* document.pointerLockElement: 0 (null) or the scope whose canvas holds the lock
  lockRequest,        \* a requestPointerLock() the host has not answered: 0 or the scope of the canvas
  plcQueued,          \* a pointerlockchange event the host has queued and not yet dispatched
  listeners,          \* the listeners registered with addEventListener
  surfaces,           \* the canvases (by scope) that are children of the container div
  rafQueue,           \* the scopes whose animate callback is scheduled with requestAnimationFrame
  effect,             \* the scope of the effect run whose cleanup is pending (0: none)
  scopes,             \* one closure per effect run: the variables the effect body declares
  assembly            \* the world-assembly loops of lines 83-116, iteration by iteration

vars == <<lifecycle, isPointerLocked, selectedSlot, fps, fpsWindow, innerSize,
          pointerLockElement, lockRequest, plcQueued, listeners, surfaces,
          rafQueue, effect, scopes, assembly>>

hostVars == <<pointerLockElement, lockRequest, plcQueued>>

-----------------------------------------------------------------------------
(* Program constants *)

CHUNK_SIZE == 12
RENDER_DISTANCE == 3
INVENTORY_SIZE == 9
HALF_PI == 1570796
MOUSE_SENSITIVITY == 2000
STICK_SENSITIVITY == 500
DEAD_ZONE == 10
FPS_WINDOW == 500
MOVING_SWING_SPEED == 150000
GAMEPAD_BUTTONS == 16

(* Bounds of the model *)

MaxScopes == 2
MaxYawSteps == 2
MaxSwingTicks == 2
MaxHeld == 4
MaxParsed == 100000000

MaxYaw == MaxYawSteps * 100 * STICK_SENSITIVITY
MaxArmSwing == MaxSwingTicks * MOVING_SWING_SPEED

Abs(n) == IF n < 0 THEN -n ELSE n
Min(a, b) == IF a < b THEN a ELSE b
Max(a, b) == IF a > b THEN a ELSE b

\* exact decimals: [n, e] is n / 10^e, kept with the least e
RECURSIVE Pow10(_)
Pow10(e) == IF e = 0 THEN 1 ELSE 10 * Pow10(e - 1)

RECURSIVE Norm(_, _)
Norm(n, e) == IF e > 0 /\ n % 10 = 0 THEN Norm(n \div 10, e - 1) ELSE [n |-> n, e |-> e]

Plus(a, b) ==
  LET e == Max(a.e, b.e)
  IN  Norm(a.n * Pow10(e - a.e) + b.n * Pow10(e - b.e), e)

\* a * 0.9
Decay(a) == Norm(a.n * 9, a.e + 1)

-----------------------------------------------------------------------------
(* Key codes are strings of characters, so that startsWith, replace and     *)
(* parseInt act on them as they do in handleKeyDown.                        *)

DigitChars ==
  <<"0", "1", "2", "3", "4", "5", "6", "7", "8", "9", "a", "b", "c", "d", "e", "f">>
UpperDigitChars ==
  <<"0", "1", "2", "3", "4", "5", "6", "7", "8", "9", "A", "B", "C", "D", "E", "F">>

Code(suffix) == <<"D", "i", "g", "i", "t">> \o suffix
Digit(n) == Code(<<DigitChars[n + 1]>>)
KeyW == <<"K", "e", "y", "W">>
KeyA == <<"K", "e", "y", "A">>
KeyS == <<"K", "e", "y", "S">>
KeyD == <<"K", "e", "y", "D">>
Numpad5 == <<"N", "u", "m", "p", "a", "d", "5">>

\* codes no keyboard produces, which a synthetic KeyboardEvent can carry
DigitFormFeedPlusHex5 == Code(<<"\f", "+", "0", "x", "5">>)
DigitLong == Code(<<"9", "9", "9", "9", "9", "9", "9", "9", "9", "9", "9">>)

IsDigitChar(ch, radix) == \E d \in 1..radix : ch \in {DigitChars[d], UpperDigitChars[d]}
DigitValue(ch) == (CHOOSE d \in 1..16 : ch \in {DigitChars[d], UpperDigitChars[d]}) - 1
\* the white space parseInt skips (StrWhiteSpaceChar); a character that has
\* no escape in a string is written as its code point
WhiteSpaceChars ==
  {" ", "\t", "\n", "\r", "\f", "U+000B", "U+00A0", "U+FEFF", "U+2028", "U+2029",
   "U+1680", "U+2000", "U+2001", "U+2002", "U+2003", "U+2004", "U+2005", "U+2006",
   "U+2007", "U+2008", "U+2009", "U+200A", "U+202F", "U+205F", "U+3000"}

IsWhiteSpace(ch) == ch \in WhiteSpaceChars

\* String.prototype.startsWith
StartsWith(s, p) == Len(s) >= Len(p) /\ SubSeq(s, 1, Len(p)) = p

\* String.prototype.replace with a string pattern: the first occurrence only
Replace(s, p, r) ==
  LET at == {i \in 1..(Len(s) - Len(p) + 1) : SubSeq(s, i, i + Len(p) - 1) = p}
  IN  IF at = {} THEN s
      ELSE LET i == CHOOSE j \in at : \A k \in at : j <= k
           IN  SubSeq(s, 1, i - 1) \o r \o SubSeq(s, i + Len(p), Len(s))

\* parseInt(s) without a radix: leading white space is skipped, a sign is
\* read, a 0x or 0X prefix makes the digits hexadecimal; <<n>> for the
\* leading digits, NaN when there are none. A magnitude of MaxParsed or more
\* is kept as MaxParsed.
NaN == <<>>

RECURSIVE TrimStart(_)
TrimStart(s) == IF s # <<>> /\ IsWhiteSpace(Head(s)) THEN TrimStart(Tail(s)) ELSE s

RECURSIVE ParseDigits(_, _, _)
ParseDigits(s, radix, acc) ==
  IF s = <<>> \/ ~IsDigitChar(Head(s), radix) THEN acc
  ELSE ParseDigits(Tail(s), radix, Min(MaxParsed, radix * acc + DigitValue(Head(s))))

ParseInt(s) ==
  LET t == TrimStart(s)
      signed == t # <<>> /\ Head(t) \in {"+", "-"}
      sign == IF signed /\ Head(t) = "-" THEN -1 ELSE 1
      u == IF signed THEN Tail(t) ELSE t
      hex == Len(u) >= 2 /\ u[1] = "0" /\ u[2] \in {"x", "X"}
      radix == IF hex THEN 16 ELSE 10
      digits == IF hex THEN SubSeq(u, 3, Len(u)) ELSE u
  IN  IF digits = <<>> \/ ~IsDigitChar(Head(digits), radix) THEN NaN
      ELSE <<sign * ParseDigits(digits, radix, 0)>>

\* handleKeyDown, lines 143-146: the slot setSelectedSlot is called with, or
\* the current slot when it is not called
SelectSlotOffByOne(code, current) ==
  IF StartsWith(code, Code(<<>>))
  THEN LET n == ParseInt(Replace(code, Code(<<>>), <<>>))
       IN  IF n = NaN THEN current
           ELSE IF n[1] >= 0 /\ n[1] < 9 THEN n[1] ELSE current
  ELSE current

SelectSlot(code, current) ==
  IF StartsWith(code, Code(<<>>))
  THEN LET n == ParseInt(Replace(code, Code(<<>>), <<>>))
       IN  IF n = NaN THEN current
           ELSE LET slot == n[1] - 1
                IN  IF slot >= 0 /\ slot < 9 THEN slot ELSE current
  ELSE current

-----------------------------------------------------------------------------
(* Look: handleMouseMove and updateGamepad *)

\* Math.max(-Math.PI / 2, Math.min(Math.PI / 2, pitch)), lines 157 and 182
ClampUpperOnly(p) == Min(HALF_PI, p)

ClampPitch(p) == Max(-HALF_PI, Min(HALF_PI, p))

\* the dead zone of lines 175-178: Math.abs(a) > 0.1 ? a : 0
DeadZone(a) == IF Abs(a) > DEAD_ZONE THEN a ELSE 0

\* navigator.getGamepads()[0]: null, or a gamepad with its axes and buttons
NoGamepad == [connected |-> FALSE, axes |-> <<>>, buttons |-> <<>>]
Pad(axes, buttons) == [connected |-> TRUE, axes |-> axes, buttons |-> buttons]

\* gamepadState.buttons[i] = gamepad.buttons[i].pressed for every i the
\* gamepad has, lines 184-186 (the array grows when the gamepad has more)
CopyButtons(old, pressed) ==
  [i \in 1..Max(Len(old), Len(pressed)) |->
     IF i <= Len(pressed) THEN pressed[i] ELSE old[i]]

\* updateGamepad, lines 170-188, on the closure c with navigator.getGamepads()[0] = gp
UpdateGamepad(c, gp) ==
  IF ~gp.connected THEN c
  ELSE LET pad == [leftStick  |-> [x |-> DeadZone(gp.axes[1]), y |-> DeadZone(gp.axes[2])],
                   rightStick |-> [x |-> DeadZone(gp.axes[3]), y |-> DeadZone(gp.axes[4])],
                   buttons    |-> CopyButtons(c.gamepadState.buttons, gp.buttons)]
       IN  [c EXCEPT !.gamepadState = pad,
                     !.yaw = c.yaw - pad.rightStick.x * STICK_SENSITIVITY,
                     !.pitch = ClampPitch(c.pitch - pad.rightStick.y * STICK_SENSITIVITY)]

\* handleMouseMove, lines 153-158
HandleMouseMove(c, movementX, movementY) ==
  IF ~c.isPointerLocked THEN c
  ELSE [c EXCEPT !.yaw = c.yaw - movementX * MOUSE_SENSITIVITY,
                 !.pitch = ClampPitch(c.pitch - movementY * MOUSE_SENSITIVITY)]

-----------------------------------------------------------------------------
(* Movement, arm and FPS bookkeeping of animate *)

Held(c, code) == code \in c.keys

\* isMoving, lines 219-221
IsMoving(c) ==
  \/ Held(c, KeyW) \/ Held(c, KeyS) \/ Held(c, KeyA) \/ Held(c, KeyD)
  \/ Abs(c.gamepadState.leftStick.x) > DEAD_ZONE
  \/ Abs(c.gamepadState.leftStick.y) > DEAD_ZONE

\* direction after lines 216 and 223-226, before normalize(): a later
\* assignment overwrites an earlier one
DirectionCancelling(c) ==
  LET ls == c.gamepadState.leftStick
      back == IF Held(c, KeyS) \/ ls.y > DEAD_ZONE THEN 1 ELSE 0
      fwd == IF Held(c, KeyW) \/ ls.y < -DEAD_ZONE THEN 1 ELSE 0
      rgt == IF Held(c, KeyD) \/ ls.x > DEAD_ZONE THEN 1 ELSE 0
      lft == IF Held(c, KeyA) \/ ls.x < -DEAD_ZONE THEN 1 ELSE 0
  IN  [x |-> rgt - lft, z |-> back - fwd]

Direction(c) ==
  LET ls == c.gamepadState.leftStick
      z1 == IF Held(c, KeyW) \/ ls.y < -DEAD_ZONE THEN -1 ELSE 0
      z2 == IF Held(c, KeyS) \/ ls.y > DEAD_ZONE THEN 1 ELSE z1
      x1 == IF Held(c, KeyA) \/ ls.x < -DEAD_ZONE THEN -1 ELSE 0
      x2 == IF Held(c, KeyD) \/ ls.x > DEAD_ZONE THEN 1 ELSE x1
  IN  [x |-> x2, z |-> z2]

\* velocity, lines 228 and 241-243, for the direction d: the coefficients of
\* forward(yaw) and right(yaw), in units of moveSpeed when d lies on an axis
\* (normalize() leaves it) and of moveSpeed / sqrt(2) when d is diagonal.
\* normalize() leaves the zero vector zero.
NoVelocity == [fwdAxis |-> 0, rightAxis |-> 0, fwdDiag |-> 0, rightDiag |-> 0]

Velocity(d) ==
  IF d.x # 0 /\ d.z # 0
  THEN [fwdAxis |-> 0, rightAxis |-> 0, fwdDiag |-> -d.z, rightDiag |-> d.x]
  ELSE [fwdAxis |-> -d.z, rightAxis |-> d.x, fwdDiag |-> 0, rightDiag |-> 0]

AddVelocities(a, b) ==
  [fwdAxis |-> a.fwdAxis + b.fwdAxis, rightAxis |-> a.rightAxis + b.rightAxis,
   fwdDiag |-> a.fwdDiag + b.fwdDiag, rightDiag |-> a.rightDiag + b.rightDiag]

\* camera.position.add(velocity), line 245. A position is the displacement
\* from (8, 15, 8): for every yaw moved at, the coefficients of forward(yaw)
\* and right(yaw). Unit vectors at different yaws are independent, so two
\* positions are equal exactly when these maps are.
AddToPosition(pos, yaw, v) ==
  LET old == IF yaw \in DOMAIN pos THEN pos[yaw] ELSE NoVelocity
      new == AddVelocities(old, v)
  IN  IF new = NoVelocity
      THEN [y \in DOMAIN pos \ {yaw} |-> pos[y]]
      ELSE [y \in DOMAIN pos \cup {yaw} |-> IF y = yaw THEN new ELSE pos[y]]

\* armSwingSpeed, lines 249-253
ArmSwingSpeed(c) ==
  IF IsMoving(c) THEN Norm(MOVING_SWING_SPEED, 0) ELSE Decay(c.armSwingSpeed)

\* Math.round(num / den) for num >= 0, den > 0: halves round up
RoundFloor(num, den) == num \div den

Round(num, den) == (2 * num + den) \div (2 * den)

\* the FPS bookkeeping of lines 203-212 with performance.now() = currentTime.
\* Times are kept relative to the last display refresh.
Elapsed(c, currentTime) == c.fpsUpdateTime + (currentTime - c.lastTime)

FpsDue(c, currentTime) == Elapsed(c, currentTime) >= FPS_WINDOW

FpsValue(c, currentTime) == Round((c.frameCount + 1) * 1000, Elapsed(c, currentTime))

\* one call of animate, lines 200-260, on the closure c
Animate(c, currentTime, gp) ==
  LET timed == IF FpsDue(c, currentTime)
               THEN [c EXCEPT !.frameCount = 0, !.fpsUpdateTime = 0,
                              !.lastTime = currentTime]
               ELSE [c EXCEPT !.frameCount = c.frameCount + 1,
                              !.fpsUpdateTime = Elapsed(c, currentTime),
                              !.lastTime = currentTime]
      polled == UpdateGamepad(timed, gp)
      speed == ArmSwingSpeed(polled)
  IN  [polled EXCEPT
         !.position = AddToPosition(polled.position, polled.yaw, Velocity(Direction(polled))),
         !.armSwingSpeed = speed,
         !.armSwing = Plus(polled.armSwing, speed)]

\* the closures the model explores
Bounded(c) ==
  /\ Abs(c.yaw) <= MaxYaw
  /\ c.armSwing.n <= MaxArmSwing * Pow10(c.armSwing.e)
  /\ Cardinality(c.keys) <= MaxHeld

-----------------------------------------------------------------------------
(* World assembly, lines 83-116 *)

WorldXOffByOne(cx, x) == cx * CHUNK_SIZE + x + 1

WorldX(cx, x) == cx * CHUNK_SIZE + x
WorldZ(cz, z) == cz * CHUNK_SIZE + z

ChunkCoords == (-RENDER_DISTANCE)..(RENDER_DISTANCE - 1)

\* the meshes the loop of lines 109-116 adds to the scene of scope s
ChunkMeshes(s) == {<<s, cx, cz>> : cx \in ChunkCoords, cz \in ChunkCoords}

\* the closure of effect run s before its first animate(): lines 49, 55,
\* 108-116, 127-139 and 196-198, with the isPointerLocked of the render
\* and performance.now() = now
Fresh(s, locked, size, now) ==
  [isPointerLocked |-> locked,
   chunks          |-> ChunkMeshes(s),
   viewport        |-> size,
   keys            |-> {},
   position        |-> <<>>,
   yaw             |-> 0,
   pitch           |-> 0,
   armSwing        |-> Norm(0, 0),
   armSwingSpeed   |-> Norm(0, 0),
   gamepadState    |-> [leftStick  |-> [x |-> 0, y |-> 0],
                        rightStick |-> [x |-> 0, y |-> 0],
                        buttons    |-> [i \in 1..GAMEPAD_BUTTONS |-> FALSE]],
   lastTime        |-> now,
   frameCount      |-> 0,
   fpsUpdateTime   |-> 0]

-----------------------------------------------------------------------------
(* The effect: listeners, cleanup, and the host's side of pointer lock *)

Listener(target, type, s) == [target |-> target, type |-> type, scope |-> s]

\* lines 190-194 and 269; a canvas listener is on renderer.domElement of scope s
Registered(s) ==
  {Listener("window", "keydown", s), Listener("window", "keyup", s),
   Listener("canvas", "mousemove", s), Listener("canvas", "click", s),
   Listener("document", "pointerlockchange", s), Listener("window", "resize", s)}

\* the removeEventListener calls of the cleanup, lines 272-277
RemoveListenersButResize(ls, s) ==
  ls \ (Registered(s) \ {Listener("window", "resize", s)})

RemoveListeners(ls, s) == ls \ Registered(s)

\* the scopes whose handler a dispatched event reaches
Handlers(target, type) ==
  {l.scope : l \in {m \in listeners : m.target = target /\ m.type = type}}

Latest(S) == CHOOSE s \in S : \A t \in S : t <= s

InDocument(s) == lifecycle = "mounted" /\ s \in surfaces

\* the overlay of lines 318-349 is rendered: it covers the whole page, the
\* canvas and the slot cards included, and has no handler
Overlay == ~isPointerLocked

\* a pointer event comes from the user's pointer, which the host dispatches
\* to the pointer-lock target when there is one and else to the topmost
\* element under the pointer, or from a script (dispatchEvent, click())
Origins == {"user", "script"}

\* the canvases a mouse event of that origin can be dispatched to
MouseTargets(origin) ==
  IF origin = "user"
  THEN IF pointerLockElement # 0 THEN {pointerLockElement}
       ELSE IF Overlay THEN {}
       ELSE {s \in surfaces : InDocument(s)}
  ELSE {s \in surfaces : InDocument(s)}

Apply(S, f(_)) == [s \in DOMAIN scopes |-> IF s \in S THEN f(scopes[s]) ELSE scopes[s]]

\* the first run of the effect, lines 36-280, after the first render
Mount(gp) ==
  /\ lifecycle = "initial"
  /\ lifecycle' = "mounted"
  /\ surfaces' = surfaces \cup {1}
  /\ listeners' = listeners \cup Registered(1)
  /\ rafQueue' = rafQueue \cup {1}
  /\ scopes' = <<Animate(Fresh(1, isPointerLocked, innerSize, 0), 0, gp)>>
  /\ effect' = 1
  /\ UNCHANGED <<isPointerLocked, selectedSlot, fps, fpsWindow, innerSize, hostVars, assembly>>

\* a render with a changed isPointerLocked (the deps of line 280): the
\* cleanup of the last run, lines 271-279, then the effect body again. The
\* host releases a pointer lock whose target leaves the document. The render
\* comes now ms after the last display refresh.
RerunEffect(gp, now) ==
  /\ lifecycle = "mounted"
  /\ scopes[effect].isPointerLocked # isPointerLocked
  /\ Len(scopes) < MaxScopes
  /\ \A t \in DOMAIN scopes : scopes[t].lastTime <= now
  /\ LET s == Len(scopes) + 1
     IN  /\ listeners' = RemoveListeners(listeners, effect) \cup Registered(s)
         /\ surfaces' = (surfaces \ {effect}) \cup {s}
         /\ scopes' = Append(scopes, Animate(Fresh(s, isPointerLocked, innerSize, now), now, gp))
         /\ rafQueue' = rafQueue \cup {s}
         /\ effect' = s
  /\ pointerLockElement' = IF pointerLockElement = effect THEN 0 ELSE pointerLockElement
  /\ plcQueued' = (plcQueued \/ pointerLockElement = effect)
  /\ UNCHANGED <<lifecycle, isPointerLocked, selectedSlot, fps, fpsWindow, innerSize,
                 lockRequest, assembly>>

\* unmount: React takes the container out of the document and runs the
\* cleanup. Whether canvasRef.current is still set when line 278 runs depends
\* on the React version: the canvas is removed from the container, or stays
\* in the detached container.
Unmount ==
  /\ lifecycle = "mounted"
  /\ lifecycle' = "unmounted"
  /\ listeners' = RemoveListeners(listeners, effect)
  /\ \E refSet \in BOOLEAN : surfaces' = IF refSet THEN surfaces \ {effect} ELSE surfaces
  /\ effect' = 0
  /\ pointerLockElement' = 0
  /\ plcQueued' = (plcQueued \/ pointerLockElement # 0)
  /\ UNCHANGED <<isPointerLocked, selectedSlot, fps, fpsWindow, innerSize, lockRequest,
                 rafQueue, scopes, assembly>>

\* handleKeyDown, lines 141-147. The model explores at most MaxHeld codes
\* held at a time.
KeyDown(code) ==
  /\ scopes' = Apply(Handlers("window", "keydown"), LAMBDA c : [c EXCEPT !.keys = @ \cup {code}])
  /\ \A s \in Handlers("window", "keydown") : Bounded(scopes'[s])
  /\ selectedSlot' = IF Handlers("window", "keydown") = {} THEN selectedSlot
                     ELSE SelectSlot(code, selectedSlot)
  /\ UNCHANGED <<lifecycle, isPointerLocked, fps, fpsWindow, innerSize, hostVars,
                 listeners, surfaces, rafQueue, effect, assembly>>

\* handleKeyUp, lines 149-151
KeyUp(code) ==
  /\ scopes' = Apply(Handlers("window", "keyup"), LAMBDA c : [c EXCEPT !.keys = @ \ {code}])
  /\ UNCHANGED <<lifecycle, isPointerLocked, selectedSlot, fps, fpsWindow, innerSize,
                 hostVars, listeners, surfaces, rafQueue, effect, assembly>>

\* a click that reaches an inventory card: its onClick, line 311
SlotClick(origin, index) ==
  /\ lifecycle = "mounted"
  /\ origin = "user" => pointerLockElement = 0 /\ ~Overlay
  /\ selectedSlot' = index
  /\ UNCHANGED <<lifecycle, isPointerLocked, fps, fpsWindow, innerSize, hostVars,
                 listeners, surfaces, rafQueue, effect, scopes, assembly>>

\* a mousemove event on a canvas: handleMouseMove of the scope registered there
MouseMove(origin, movementX, movementY) ==
  /\ \E t \in MouseTargets(origin) :
       /\ scopes' = Apply({t} \cap {l.scope : l \in {m \in listeners : m.type = "mousemove"}},
                          LAMBDA c : HandleMouseMove(c, movementX, movementY))
       /\ t \in DOMAIN scopes => Bounded(scopes'[t])
  /\ UNCHANGED <<lifecycle, isPointerLocked, selectedSlot, fps, fpsWindow, innerSize,
                 hostVars, listeners, surfaces, rafQueue, effect, assembly>>

\* a click event on a canvas: handleClick, lines 160-164
Click(origin) ==
  /\ \E t \in MouseTargets(origin) :
       lockRequest' = IF Listener("canvas", "click", t) \in listeners
                         /\ ~scopes[t].isPointerLocked
                      THEN t ELSE lockRequest
  /\ UNCHANGED <<lifecycle, isPointerLocked, selectedSlot, fps, fpsWindow, innerSize,
                 pointerLockElement, plcQueued, listeners, surfaces, rafQueue, effect,
                 scopes, assembly>>

\* the host grants a pending requestPointerLock() and queues pointerlockchange
GrantLock ==
  /\ lockRequest # 0
  /\ InDocument(lockRequest)
  /\ pointerLockElement' = lockRequest
  /\ lockRequest' = 0
  /\ plcQueued' = TRUE
  /\ UNCHANGED <<lifecycle, isPointerLocked, selectedSlot, fps, fpsWindow, innerSize,
                 listeners, surfaces, rafQueue, effect, scopes, assembly>>

\* the host refuses it (pointerlockerror, which nothing listens to)
RefuseLock ==
  /\ lockRequest # 0
  /\ lockRequest' = 0
  /\ UNCHANGED <<lifecycle, isPointerLocked, selectedSlot, fps, fpsWindow, innerSize,
                 pointerLockElement, plcQueued, listeners, surfaces, rafQueue, effect,
                 scopes, assembly>>

\* the user leaves pointer lock (Escape)
ExitLock ==
  /\ pointerLockElement # 0
  /\ pointerLockElement' = 0
  /\ plcQueued' = TRUE
  /\ UNCHANGED <<lifecycle, isPointerLocked, selectedSlot, fps, fpsWindow, innerSize,
                 lockRequest, listeners, surfaces, rafQueue, effect, scopes, assembly>>

\* the queued pointerlockchange event: handlePointerLockChange, lines 166-168
PointerLockChange ==
  /\ plcQueued
  /\ plcQueued' = FALSE
  /\ isPointerLocked' =
       IF Handlers("document", "pointerlockchange") = {} THEN isPointerLocked
       ELSE pointerLockElement = Latest(Handlers("document", "pointerlockchange"))
  /\ UNCHANGED <<lifecycle, selectedSlot, fps, fpsWindow, innerSize, pointerLockElement,
                 lockRequest, listeners, surfaces, rafQueue, effect, scopes, assembly>>

\* handleResize, lines 264-268
Resize(size) ==
  /\ innerSize' = size
  /\ scopes' = Apply(Handlers("window", "resize"), LAMBDA c : [c EXCEPT !.viewport = size])
  /\ UNCHANGED <<lifecycle, isPointerLocked, selectedSlot, fps, fpsWindow, hostVars,
                 listeners, surfaces, rafQueue, effect, assembly>>

\* a display refresh dt ms after the last one: the host runs every scheduled
\* animate callback, in the order they were scheduled; each schedules itself
\* again (line 201). The last setFps of the refresh is the published value;
\* React drops a setFps on the unmounted component. Times are then taken
\* relative to this refresh.
DisplayRefresh(dt, gp) ==
  /\ rafQueue # {}
  /\ \A s \in rafQueue : scopes[s].lastTime <= dt
  /\ scopes' = Apply(rafQueue, LAMBDA c : [Animate(c, dt, gp) EXCEPT !.lastTime = 0])
  /\ \A s \in rafQueue : Bounded(scopes'[s])
  /\ LET due == {s \in rafQueue : FpsDue(scopes[s], dt)}
     IN  IF due = {} \/ lifecycle # "mounted" THEN UNCHANGED <<fps, fpsWindow>>
         ELSE LET c == scopes[Latest(due)]
              IN  /\ fps' = FpsValue(c, dt)
                  /\ fpsWindow' = [frames |-> c.frameCount + 1, ms |-> Elapsed(c, dt)]
  /\ UNCHANGED <<lifecycle, isPointerLocked, selectedSlot, innerSize, hostVars,
                 listeners, surfaces, rafQueue, effect, assembly>>

-----------------------------------------------------------------------------
(* The component from its first render: user events, host events, refreshes *)

Idle == [pc |-> "idle"]

Init ==
  /\ lifecycle = "initial"
  /\ isPointerLocked = FALSE
  /\ selectedSlot = 0
  /\ fps = 0
  /\ fpsWindow = [frames |-> 0, ms |-> 0]
  /\ innerSize = <<800, 600>>
  /\ pointerLockElement = 0
  /\ lockRequest = 0
  /\ plcQueued = FALSE
  /\ listeners = {}
  /\ surfaces = {}
  /\ rafQueue = {}
  /\ effect = 0
  /\ scopes = <<>>
  /\ assembly = Idle

\* inputs: a key that selects a slot (movement keys are in SpecKeys and
\* SpecMove), a gamepad at rest within the dead zone (deflected sticks are in
\* SpecLook and SpecMove), a mouse move, a slot click, a refresh interval
\* and the time after a refresh at which a render comes
Codes == {Digit(5)}
Sizes == {<<800, 600>>, <<1024, 768>>}
NoPads == {NoGamepad}
Pads == {Pad(<<5, -5, 5, -5>>, <<TRUE>>)}
Moves == {<<25, 775>>}
Slots == {4}
Dts == {500}
Nows == {50}

Next ==
  \/ \E gp \in Pads : Mount(gp)
  \/ \E gp \in Pads, now \in Nows : RerunEffect(gp, now)
  \/ Unmount
  \/ \E code \in Codes : KeyDown(code)
  \/ \E code \in Codes : KeyUp(code)
  \/ \E origin \in Origins, index \in Slots : SlotClick(origin, index)
  \/ \E origin \in Origins, m \in Moves : MouseMove(origin, m[1], m[2])
  \/ \E origin \in Origins : Click(origin)
  \/ GrantLock
  \/ RefuseLock
  \/ ExitLock
  \/ PointerLockChange
  \/ \E size \in Sizes : Resize(size)
  \/ \E dt \in Dts, gp \in Pads : DisplayRefresh(dt, gp)

Spec == Init /\ [][Next]_vars

-----------------------------------------------------------------------------
(* Held keys: a movement key across clicks, pointer-lock changes, mouse     *)
(* moves, gamepad polls and refreshes                                       *)

HeldCodes == {KeyW}
KeyPads == NoPads \cup Pads

NextKeys ==
  \/ \E gp \in KeyPads : Mount(gp)
  \/ \E gp \in KeyPads, now \in Nows : RerunEffect(gp, now)
  \/ \E code \in HeldCodes : KeyDown(code)
  \/ \E code \in HeldCodes : KeyUp(code)
  \/ \E origin \in Origins, m \in Moves : MouseMove(origin, m[1], m[2])
  \/ \E origin \in Origins : Click(origin)
  \/ GrantLock
  \/ ExitLock
  \/ PointerLockChange
  \/ \E dt \in Dts, gp \in KeyPads : DisplayRefresh(dt, gp)

SpecKeys == Init /\ [][NextKeys]_vars

-----------------------------------------------------------------------------
(* Look: mouse moves and right-stick polls across pointer-lock changes *)

LookMoves == {<<25, 775>>, <<-25, -775>>}
LookPads == {NoGamepad, Pad(<<0, 0, -100, -100>>, <<TRUE>>)}

NextLook ==
  \/ \E gp \in LookPads : Mount(gp)
  \/ \E gp \in LookPads, now \in Nows : RerunEffect(gp, now)
  \/ \E origin \in Origins, m \in LookMoves : MouseMove(origin, m[1], m[2])
  \/ \E origin \in Origins : Click(origin)
  \/ GrantLock
  \/ ExitLock
  \/ PointerLockChange
  \/ \E dt \in Dts, gp \in LookPads : DisplayRefresh(dt, gp)

SpecLook == Init /\ [][NextLook]_vars

-----------------------------------------------------------------------------
(* Movement: held W/A/S/D keys and left-stick readings, one effect run *)

MoveCodes == {KeyW, KeyA, KeyS, KeyD}
MovePads ==
  {NoGamepad} \cup {Pad(<<x, y, 0, 0>>, <<>>) : x \in {-100, 10, 11}, y \in {-100, 10, 11}}

NextMove ==
  \/ \E gp \in MovePads : Mount(gp)
  \/ \E code \in MoveCodes : KeyDown(code)
  \/ \E code \in MoveCodes : KeyUp(code)
  \/ \E dt \in Dts, gp \in MovePads : DisplayRefresh(dt, gp)

SpecMove == Init /\ [][NextMove]_vars

-----------------------------------------------------------------------------
(* FPS: refreshes at varying intervals, one effect run *)

FpsDts == {16, 17}

NextFps ==
  \/ \E gp \in NoPads : Mount(gp)
  \/ \E dt \in FpsDts, gp \in NoPads : DisplayRefresh(dt, gp)

SpecFps == Init /\ [][NextFps]_vars

-----------------------------------------------------------------------------
(* Hotbar: key presses and slot clicks, one effect run *)

HotbarCodes ==
  {Digit(n) : n \in 0..9} \cup {Numpad5, DigitFormFeedPlusHex5, DigitLong}

NextHotbar ==
  \/ \E gp \in NoPads : Mount(gp)
  \/ \E code \in HotbarCodes : KeyDown(code)
  \/ \E code \in HotbarCodes : KeyUp(code)
  \/ \E origin \in Origins, index \in 0..(INVENTORY_SIZE - 1) : SlotClick(origin, index)

SpecHotbar == Init /\ [][NextHotbar]_vars

-----------------------------------------------------------------------------
(* World assembly, lines 83-116 of the effect body, one iteration at a time. *)
(* A block is its column <<worldX, worldZ>>; its height,                      *)
(* Math.floor(noise(worldX, worldZ) + 8), is not modelled. assembly.merge is   *)
(* whether THREE.BufferGeometryUtils?.mergeGeometries is there (line 100).    *)

\* line 108 reached, with the loop variables of lines 109-110 and 86-87
InitWorld ==
  /\ lifecycle = "initial"
  /\ isPointerLocked = FALSE
  /\ selectedSlot = 0
  /\ fps = 0
  /\ fpsWindow = [frames |-> 0, ms |-> 0]
  /\ innerSize = <<800, 600>>
  /\ pointerLockElement = 0
  /\ lockRequest = 0
  /\ plcQueued = FALSE
  /\ listeners = {}
  /\ surfaces = {}
  /\ rafQueue = {}
  /\ effect = 0
  /\ scopes = <<>>
  /\ \E m \in BOOLEAN :
       assembly = [pc |-> "loop", merge |-> m,
                   cx |-> -RENDER_DISTANCE, cz |-> -RENDER_DISTANCE, x |-> 0, z |-> 0,
                   geometries |-> <<>>, chunks |-> <<>>]

\* one iteration of the inner loops of createMergedChunk, lines 86-96
PushBlock ==
  /\ assembly.pc = "loop"
  /\ assembly.x < CHUNK_SIZE
  /\ LET a == assembly
         block == <<WorldX(a.cx, a.x), WorldZ(a.cz, a.z)>>
         last == a.z + 1 = CHUNK_SIZE
     IN  assembly' = [a EXCEPT !.geometries = Append(a.geometries, block),
                               !.z = IF last THEN 0 ELSE a.z + 1,
                               !.x = IF last THEN a.x + 1 ELSE a.x]
  /\ UNCHANGED <<lifecycle, isPointerLocked, selectedSlot, fps, fpsWindow, innerSize,
                 hostVars, listeners, surfaces, rafQueue, effect, scopes>>

\* the geometry createMergedChunk returns, lines 98-105
Merged(geometries, merge) ==
  IF Len(geometries) > 0
  THEN IF merge THEN geometries ELSE <<geometries[1]>>
  ELSE <<>>

\* createMergedChunk returns and the outer loops add the mesh, lines 98-115
FinishChunk ==
  /\ assembly.pc = "loop"
  /\ assembly.x = CHUNK_SIZE
  /\ LET a == assembly
         mesh == [cx |-> a.cx, cz |-> a.cz, built |-> Len(a.geometries),
                  geometry |-> Merged(a.geometries, a.merge)]
         lastZ == a.cz + 1 = RENDER_DISTANCE
         lastX == lastZ /\ a.cx + 1 = RENDER_DISTANCE
     IN  assembly' = [a EXCEPT !.chunks = Append(a.chunks, mesh),
                               !.geometries = <<>>,
                               !.x = 0, !.z = 0,
                               !.cz = IF lastZ THEN -RENDER_DISTANCE ELSE a.cz + 1,
                               !.cx = IF lastZ THEN a.cx + 1 ELSE a.cx,
                               !.pc = IF lastX THEN "done" ELSE "loop"]
  /\ UNCHANGED <<lifecycle, isPointerLocked, selectedSlot, fps, fpsWindow, innerSize,
                 hostVars, listeners, surfaces, rafQueue, effect, scopes>>

NextWorld == PushBlock \/ FinishChunk

SpecWorld == InitWorld /\ [][NextWorld]_vars

-----------------------------------------------------------------------------
(* Claims *)

Live == scopes[effect]

\* C1 (SpecLook): after any interleaving of mouse moves and gamepad polls,
\* the pitch of every effect run's closure lies within [-pi/2, pi/2].
C1_PitchClamped ==
  \A s \in DOMAIN scopes : -HALF_PI <= scopes[s].pitch /\ scopes[s].pitch <= HALF_PI

\* a closure the mouse and the right stick have both turned, held at the lower clamp
C1_Witness ==
  \E s \in DOMAIN scopes :
    /\ scopes[s].isPointerLocked
    /\ scopes[s].gamepadState.rightStick.y # 0
    /\ scopes[s].pitch = -HALF_PI

\* C2 (SpecLook), as claimed: a mouse move delivered to the registered
\* handler while pointer lock is disengaged leaves yaw and pitch unchanged,
\* and while it is engaged (the live canvas holds the lock) changes yaw by
\* -movementX * 0.002 and pitch by -movementY * 0.002 before clamping.
C2_MouseLookGating ==
  [][\A origin \in Origins, m \in LookMoves :
       (effect # 0 /\ MouseMove(origin, m[1], m[2])) =>
         IF pointerLockElement = effect
         THEN /\ Live'.yaw = Live.yaw - m[1] * 2000
              /\ Live'.pitch = Max(-HALF_PI, Min(HALF_PI, Live.pitch - m[2] * 2000))
         ELSE /\ Live'.yaw = Live.yaw
              /\ Live'.pitch = Live.pitch]_vars

\* C3 (Spec), as claimed: the chunk-building loop runs exactly once, and the
\* chunk meshes of the rendered scene are those of the first run ever after.
C3_WorldAssembledOnce ==
  /\ Len(scopes) <= 1
  /\ effect # 0 => Live.chunks = {<<1, cx, cz>> : cx \in -3..2, cz \in -3..2}

\* C4 (Spec): the registered listeners are exactly the six of the live effect
\* run, and the only canvas in the document is its canvas; none of either
\* after the final teardown.
C4_ScopedTeardown ==
  /\ listeners =
       IF effect = 0 THEN {}
       ELSE {[target |-> "window", type |-> "keydown", scope |-> effect],
             [target |-> "window", type |-> "keyup", scope |-> effect],
             [target |-> "window", type |-> "resize", scope |-> effect],
             [target |-> "canvas", type |-> "mousemove", scope |-> effect],
             [target |-> "canvas", type |-> "click", scope |-> effect],
             [target |-> "document", type |-> "pointerlockchange", scope |-> effect]}
  /\ {s \in surfaces : lifecycle = "mounted"} = IF effect = 0 THEN {} ELSE {effect}
  /\ lifecycle = "mounted" <=> effect # 0

\* the component unmounted after the effect has re-run
C4_Witness ==
  /\ lifecycle = "unmounted"
  /\ Len(scopes) >= 2
  /\ listeners = {}

\* C5 (Spec), as claimed: at most one animate loop is scheduled at any time,
\* so a display refresh runs one tick, and none is scheduled after teardown.
C5_OneAnimateLoop ==
  /\ Cardinality(rafQueue) <= 1
  /\ lifecycle = "unmounted" => rafQueue = {}

\* C6 (SpecKeys), as claimed: a held key stays held for the live frame loop
\* until the keyup of that code; no other event clears it.
C6_HeldKeyPersists ==
  [][\A code \in HeldCodes :
       (effect # 0 /\ effect' # 0 /\ code \in Live.keys /\ ~KeyUp(code))
         => code \in Live'.keys]_vars

\* C7 (SpecFps): a tick whose accumulated time reaches 500 ms publishes
\* round(frames * 1000 / elapsedMs) and resets both accumulators, any other
\* tick publishes nothing; so the accumulator stays below 500, and a window
\* of 30 frames over exactly 500 ms publishes 60.
C7_FpsSampling ==
  /\ [](\A s \in DOMAIN scopes : scopes[s].fpsUpdateTime < 500)
  /\ [](fpsWindow = [frames |-> 30, ms |-> 500] => fps = 60)
  /\ [][\A dt \in FpsDts :
          DisplayRefresh(dt, NoGamepad) =>
            LET frames == scopes[1].frameCount + 1
                ms == scopes[1].fpsUpdateTime + dt
            IN  IF ms >= 500
                THEN /\ -ms < 2 * (fps' * ms - frames * 1000)
                     /\ 2 * (fps' * ms - frames * 1000) <= ms
                     /\ fpsWindow' = [frames |-> frames, ms |-> ms]
                     /\ scopes'[1].frameCount = 0
                     /\ scopes'[1].fpsUpdateTime = 0
                ELSE /\ fps' = fps
                     /\ fpsWindow' = fpsWindow
                     /\ scopes'[1].frameCount = frames
                     /\ scopes'[1].fpsUpdateTime = ms]_vars

\* 30 frames over exactly 500 ms have just been published as 60
C7_Witness ==
  /\ Len(scopes) = 1
  /\ fpsWindow = [frames |-> 30, ms |-> 500]
  /\ fps = 60
  /\ scopes[1].frameCount = 0
  /\ scopes[1].fpsUpdateTime = 0

Columns(cx, cz) == {<<cx * 12 + x, cz * 12 + z>> : x \in 0..11, z \in 0..11}
Range(seq) == {seq[i] : i \in DOMAIN seq}
Covered(chunks) == UNION {Range(c.geometry) : c \in Range(chunks)}
RECURSIVE TotalBlocks(_)
TotalBlocks(chunks) ==
  IF chunks = <<>> THEN 0 ELSE Len(Head(chunks).geometry) + TotalBlocks(Tail(chunks))

\* C8 (SpecWorld), as claimed: every chunk the builder returns holds exactly
\* 144 blocks, one per column of the chunk; the world is 36 chunks for cx, cz
\* in [-3, 3), 5184 blocks in all, and no column lies in two chunks.
C8_ChunkAndWorldCounts ==
  /\ \A i \in DOMAIN assembly.chunks :
       LET c == assembly.chunks[i]
       IN  Len(c.geometry) = 144 /\ Range(c.geometry) = Columns(c.cx, c.cz)
  /\ assembly.pc = "done" =>
       /\ Len(assembly.chunks) = 36
       /\ {<<c.cx, c.cz>> : c \in Range(assembly.chunks)} = (-3..2) \X (-3..2)
       /\ TotalBlocks(assembly.chunks) = 5184
       /\ Cardinality(Covered(assembly.chunks)) = TotalBlocks(assembly.chunks)

\* C8 (SpecWorld), amended: the builder positions exactly 144 blocks, one per
\* column of the chunk; the geometry it returns holds all of them when the
\* merge utility is there, and only the first, at column (cx*12, cz*12),
\* when it is not. The world is 36 chunks for cx, cz in [-3, 3), with 5184
\* blocks in all when merged and 36 when not, and no column in two chunks.
C8_CountsByMerge ==
  /\ \A i \in DOMAIN assembly.chunks :
       LET c == assembly.chunks[i]
       IN  /\ c.built = 144
           /\ IF assembly.merge
              THEN Len(c.geometry) = 144 /\ Range(c.geometry) = Columns(c.cx, c.cz)
              ELSE c.geometry = <<(<<c.cx * 12, c.cz * 12>>)>>
  /\ assembly.pc = "loop" =>
       /\ Len(assembly.geometries) = assembly.x * 12 + assembly.z
       /\ Range(assembly.geometries) \subseteq Columns(assembly.cx, assembly.cz)
  /\ assembly.pc = "done" =>
       /\ Len(assembly.chunks) = 36
       /\ {<<c.cx, c.cz>> : c \in Range(assembly.chunks)} = (-3..2) \X (-3..2)
       /\ TotalBlocks(assembly.chunks) = IF assembly.merge THEN 5184 ELSE 36
       /\ Cardinality(Covered(assembly.chunks)) = TotalBlocks(assembly.chunks)

\* the world assembled without the merge utility: 36 chunks of one block
C8_Witness ==
  /\ assembly.pc = "done"
  /\ ~assembly.merge
  /\ TotalBlocks(assembly.chunks) = 36

\* the codes Digit1..Digit9 by digit, the pressed codes other than these, and
\* for each pressed code the integer handleKeyDown reads from it: parseInt of
\* the code with its first "Digit" removed when the code begins with Digit,
\* NaN otherwise
DigitKey == [k \in 1..9 |-> Digit(k)]
OtherCodes == HotbarCodes \ {Digit(k) : k \in 1..9}
KeyNumber ==
  [code \in HotbarCodes |->
     IF StartsWith(code, Code(<<>>)) THEN ParseInt(Replace(code, Code(<<>>), <<>>))
     ELSE NaN]

\* C9 (SpecHotbar), as stated: the keydown of Digit1..Digit9 selects slot
\* 0..8, the keydown of Digit0 or of any other code leaves the slot, a slot
\* click selects the clicked index, and the selected slot is always in 0..8.
\* A slot click is a click that reaches the card, which the overlay covers
\* while it is rendered.
C9_HotbarSelection ==
  /\ [](selectedSlot \in 0..8)
  /\ [][\A code \in HotbarCodes :
          \/ /\ \A k \in 1..9 : code = DigitKey[k] => selectedSlot' = k - 1
             /\ code \in OtherCodes => selectedSlot' = selectedSlot
          \/ ~KeyDown(code)]_vars
  /\ [][\A origin \in Origins, index \in 0..8 :
          SlotClick(origin, index) => selectedSlot' = index]_vars

\* C9 (SpecHotbar), amended: a keydown selects slot N-1 exactly when its code
\* begins with Digit and parseInt reads the rest as an integer N in 1..9:
\* Digit1..Digit9 select 0..8 and so does a code such as Digit\f+0x5 (slot 4);
\* Digit0, Digit99999999999 and Numpad5 leave the slot. A slot click selects
\* the clicked index, and the selected slot is always in 0..8.
C9_HotbarSelectionByNumber ==
  /\ [](selectedSlot \in 0..8)
  /\ [][\A code \in HotbarCodes :
          \/ /\ \A k \in 1..9 : code = DigitKey[k] => selectedSlot' = k - 1
             /\ code = DigitFormFeedPlusHex5 => selectedSlot' = 4
             /\ code \in OtherCodes \ {DigitFormFeedPlusHex5} =>
                  selectedSlot' = selectedSlot
             /\ IF KeyNumber[code] # NaN /\ KeyNumber[code][1] \in 1..9
                THEN selectedSlot' = KeyNumber[code][1] - 1
                ELSE selectedSlot' = selectedSlot
          \/ ~KeyDown(code)]_vars
  /\ [][\A origin \in Origins, index \in 0..8 :
          SlotClick(origin, index) => selectedSlot' = index]_vars

\* slot 4 selected with Digit\f+0x5 held and Digit5 not, together with the
\* three codes that leave the slot
C9_Witness ==
  /\ Len(scopes) = 1
  /\ selectedSlot = 4
  /\ scopes[1].keys = {DigitFormFeedPlusHex5, Digit(0), DigitLong, Numpad5}

ForwardCoefficient(pos) == IF 0 \in DOMAIN pos THEN pos[0].fwdAxis + pos[0].fwdDiag ELSE 0
RightCoefficient(pos) == IF 0 \in DOMAIN pos THEN pos[0].rightAxis + pos[0].rightDiag ELSE 0

\* C10 (SpecMove): in every tick armSwingSpeed becomes 0.15 exactly when the
\* camera position changes and is multiplied by 0.9 exactly when it does
\* not; with S held (also with W) the camera moves backward, with D held
\* (also with A) to the right.
C10_ArmFollowsMovement ==
  [][\A dt \in Dts, gp \in MovePads :
       DisplayRefresh(dt, gp) =>
         LET c == scopes[1]
             d == scopes'[1]
         IN  /\ IF d.position # c.position
                THEN d.armSwingSpeed = [n |-> 150000, e |-> 0]
                ELSE d.armSwingSpeed.n * 10 * Pow10(c.armSwingSpeed.e)
                       = c.armSwingSpeed.n * 9 * Pow10(d.armSwingSpeed.e)
             /\ KeyS \in c.keys =>
                  ForwardCoefficient(d.position) = ForwardCoefficient(c.position) - 1
             /\ KeyD \in c.keys =>
                  RightCoefficient(d.position) = RightCoefficient(c.position) + 1]_vars

\* W and S both held, and the camera has moved backward with the arm swinging
C10_Witness ==
  /\ Len(scopes) = 1
  /\ {KeyW, KeyS} \subseteq scopes[1].keys
  /\ ForwardCoefficient(scopes[1].position) < 0
  /\ scopes[1].armSwingSpeed = [n |-> 150000, e |-> 0]

=============================================================================
